---- MODULE Spec2Model ----
(***************************************************************************)
(* Model of the docstring-paired definition chunker of Hedgehog2.jl's      *)
(* developer tools (src/dev_tools/julia_chunks.py, repeated verbatim in    *)
(* src/architectural_decisions/initialize_agent.py) and of its two         *)
(* document projectors.                                                    *)
(*                                                                         *)
(* A text is a sequence of one-character strings.  Offsets kept in the     *)
(* state are Python offsets: 0-based, end offsets exclusive.  Indices used *)
(* inside the operators are TLA+ indices (1-based).                        *)
(***************************************************************************)
EXTENDS Integers, Sequences, FiniteSets, TLC

VARIABLES
    code,            \* text of the .jl file being chunked
    written,         \* number of fragments written to it
    spans,           \* tuples yielded by find_docstring_definitions(code)
    chunks,          \* result of chunk_julia_file_by_docstring(code)
    definition_code, \* argument of parse_definition_type_and_name
    parsed,          \* its result, or NotParsed before the call
    tree,            \* the file system below dir_path
    walk,            \* state of the chunk_by_docstring call
    documents        \* output of the document projectors

vars == <<code, written, spans, chunks, definition_code, parsed, tree, walk, documents>>

-----------------------------------------------------------------------------
(* Characters and literals                                                 *)

QUOTE == "\""
NEWLINE == "\n"
SPACE == " "

\* The whitespace characters that occur in the modelled texts (Python's \s
\* and str.strip also accept tab, CR, FF and VT, which behave like SPACE).
Whitespace == {SPACE, NEWLINE}

Letters ==
    {"a","b","c","d","e","f","g","h","i","j","k","l","m","n","o","p","q","r",
     "s","t","u","v","w","x","y","z","A","B","C","D","E","F","G","H","I","J",
     "K","L","M","N","O","P","Q","R","S","T","U","V","W","X","Y","Z"}

Digits == {"0","1","2","3","4","5","6","7","8","9"}

\* The character class [a-zA-Z0-9_!?'] of the four name patterns.
IdentifierClass == Letters \cup Digits \cup {"_", "!", "?", "'"}

TripleQuote == <<QUOTE, QUOTE, QUOTE>>
KwFunction == <<"f","u","n","c","t","i","o","n">>
KwStruct == <<"s","t","r","u","c","t">>
KwMutable == <<"m","u","t","a","b","l","e">>
KwAbstract == <<"a","b","s","t","r","a","c","t">>
KwType == <<"t","y","p","e">>
KwEnd == <<"e","n","d">>
Unknown == <<"u","n","k","n","o","w","n">>
AbstractTypePrefix == KwAbstract \o <<SPACE>> \o KwType
MutableStructPrefix == KwMutable \o <<SPACE>> \o KwStruct

-----------------------------------------------------------------------------
(* String primitives                                                       *)

\* text[i:].startswith(lit), i a 1-based index (a literal of a pattern
\* matched at position i).
LiteralAt(text, i, lit) ==
    /\ i >= 1
    /\ i + Len(lit) - 1 <= Len(text)
    /\ \A k \in 1..Len(lit) : text[i + k - 1] = lit[k]

\* str.startswith
startswith(text, lit) == LiteralAt(text, 1, lit)

\* The position after the longest run of characters of class cls that
\* starts at i (a greedy cls* ): i itself when the run is empty.
RunEnd(text, i, cls) ==
    LET stops == {j \in i..Len(text) : text[j] \notin cls}
    IN  IF stops = {} THEN Len(text) + 1
        ELSE CHOOSE j \in stops : \A k \in stops : j <= k

\* str.strip(): drop leading and trailing whitespace.
strip(text) ==
    LET keep == {j \in 1..Len(text) : text[j] \notin Whitespace}
    IN  IF keep = {} THEN <<>>
        ELSE SubSeq(text,
                    CHOOSE j \in keep : \A k \in keep : j <= k,
                    CHOOSE j \in keep : \A k \in keep : j >= k)

\* str.count('\n')
CountNewlines(text) == Cardinality({j \in 1..Len(text) : text[j] = NEWLINE})

Min(S) == CHOOSE j \in S : \A k \in S : j <= k

-----------------------------------------------------------------------------
(* DOCSTRING_DEFINITION_PATTERN                                            *)
(*                                                                         *)
(*   """(.*?)"""  \s*\n+  ( function\s+.*?end                              *)
(*                        | (?:mutable\s+)?struct\s+.*?end                 *)
(*                        | abstract\s+type\s+.*?end )        re.DOTALL    *)
(*                                                                         *)
(* The operators below return the position after the matched text, or 0    *)
(* when the piece does not match.  They follow the backtracking order of   *)
(* Python's re: a lazy .*? tries the shortest extension first, a greedy    *)
(* \s+ the longest first, alternatives left to right.                      *)

\* .*?end from position i (DOTALL: . also matches a newline): the lazy
\* quantifier stops at the first occurrence of the letters e,n,d.
LazyUntilEnd(text, i) ==
    LET hits == {j \in i..(Len(text) - 2) : LiteralAt(text, j, KwEnd)}
    IN  IF hits = {} THEN 0 ELSE Min(hits) + Len(KwEnd)

\* kw\s+.*?end with kw at position p.  The greedy \s+ takes the whole
\* whitespace run; giving characters back cannot help, since no occurrence
\* of "end" starts at a whitespace character.
KeywordBlock(text, p, kw) ==
    LET w == p + Len(kw)
    IN  IF /\ LiteralAt(text, p, kw)
           /\ w <= Len(text)
           /\ text[w] \in Whitespace
        THEN LazyUntilEnd(text, RunEnd(text, w, Whitespace))
        ELSE 0

\* kw1\s+ followed by kw2\s+.*?end : the second keyword must start right
\* after the whole whitespace run that follows the first.
TwoKeywordBlock(text, p, kw1, kw2) ==
    LET w == p + Len(kw1)
    IN  IF /\ LiteralAt(text, p, kw1)
           /\ w <= Len(text)
           /\ text[w] \in Whitespace
        THEN KeywordBlock(text, RunEnd(text, w, Whitespace), kw2)
        ELSE 0

\* function\s+.*?end
AltFunction(text, p) == KeywordBlock(text, p, KwFunction)

\* (?:mutable\s+)?struct\s+.*?end : the optional group is tried first and
\* skipped when the rest fails with it.
AltStruct(text, p) ==
    IF TwoKeywordBlock(text, p, KwMutable, KwStruct) # 0
    THEN TwoKeywordBlock(text, p, KwMutable, KwStruct)
    ELSE KeywordBlock(text, p, KwStruct)

\* abstract\s+type\s+.*?end
AltAbstract(text, p) == TwoKeywordBlock(text, p, KwAbstract, KwType)

\* Group 2, the alternation, at position p.
DefinitionAt(text, p) ==
    IF AltFunction(text, p) # 0 THEN AltFunction(text, p)
    ELSE IF AltStruct(text, p) # 0 THEN AltStruct(text, p)
    ELSE AltAbstract(text, p)

\* Faulty variant of the separator, [^\n]*\n+ : any text up to the end of the
\* line may stand between the documentation and the definition.
SeparatorEnd_RestOfLine(text, w) ==
    LET n == RunEnd(text, w, Letters \cup Digits \cup {SPACE, "(", ")", "=", QUOTE})
        p == RunEnd(text, n, {NEWLINE})
    IN  IF p > n THEN p ELSE 0

\* \s*\n+ from position w: the run must reach the first character of the
\* definition keyword (which is no whitespace), so it is the whole
\* whitespace run from w, and \n+ needs that run to end in a newline.
SeparatorEnd(text, w) ==
    LET p == RunEnd(text, w, Whitespace)
    IN  IF p > w /\ text[p - 1] = NEWLINE THEN p ELSE 0

\* \s*\n+(group 2) from position w, right after a closing delimiter.
TailAt(text, w) ==
    IF SeparatorEnd(text, w) = 0 THEN 0
    ELSE DefinitionAt(text, SeparatorEnd(text, w))

\* The closing delimiters the lazy (.*?) may stop at for a match that
\* starts at s: those after which the rest of the pattern matches.
Closers(text, s) ==
    {e \in (s + 3)..(Len(text) - 2) :
        LiteralAt(text, e, TripleQuote) /\ TailAt(text, e + 3) # 0}

\* re.match of the whole pattern at position s: does it match, and the
\* match with its groups (the lazy capture takes the first closer that
\* lets the rest match).
MatchesAt(text, s) ==
    LiteralAt(text, s, TripleQuote) /\ Closers(text, s) # {}

MatchAt(text, s) ==
    LET e == Min(Closers(text, s))
        p == SeparatorEnd(text, e + 3)
    IN  [start |-> s,                 \* first character of the match
         stop |-> DefinitionAt(text, p), \* position after the match
         doc_from |-> s + 3, doc_to |-> e - 1,    \* group 1
         def_from |-> p]                          \* group 2 runs to stop - 1

\* Faulty variant of the scan: it resumes one character after the start of
\* the previous match instead of at its end, so matches may overlap.
RECURSIVE finditer_overlapping(_, _)
finditer_overlapping(text, pos) ==
    LET starts == {s \in pos..(Len(text) - 2) : MatchesAt(text, s)}
    IN  IF starts = {} THEN <<>>
        ELSE LET m == MatchAt(text, Min(starts))
             IN  <<m>> \o finditer_overlapping(text, m.start + 1)

\* DOCSTRING_DEFINITION_PATTERN.finditer(text), scanning from position pos:
\* the leftmost match, then the scan resumes where it ended.
RECURSIVE finditer(_, _)
finditer(text, pos) ==
    LET starts == {s \in pos..(Len(text) - 2) : MatchesAt(text, s)}
    IN  IF starts = {} THEN <<>>
        ELSE LET m == MatchAt(text, Min(starts))
             IN  <<m>> \o finditer(text, m.stop)

DOCSTRING_DEFINITION_PATTERN(text) == finditer(text, 1)

-----------------------------------------------------------------------------
(* julia_chunks.py                                                         *)

find_docstring_definitions(text) ==
    LET matches == DOCSTRING_DEFINITION_PATTERN(text)
    IN  [k \in 1..Len(matches) |->
            [docstring_text |-> strip(SubSeq(text, matches[k].doc_from, matches[k].doc_to)),
             definition_code |-> strip(SubSeq(text, matches[k].def_from, matches[k].stop - 1)),
             start_offset |-> matches[k].start - 1,
             end_offset |-> matches[k].stop - 1]]

\* Faulty variants of compute_line_numbers: the two offsets exchanged, and
\* the end line taken from the start offset.
compute_line_numbers_swapped(text, start_offset, end_offset) ==
    [start_line |-> CountNewlines(SubSeq(text, 1, end_offset)) + 1,
     end_line |-> CountNewlines(SubSeq(text, 1, start_offset)) + 1]

compute_line_numbers_start_only(text, start_offset, end_offset) ==
    [start_line |-> CountNewlines(SubSeq(text, 1, start_offset)) + 1,
     end_line |-> CountNewlines(SubSeq(text, 1, start_offset)) + 1]

compute_line_numbers(text, start_offset, end_offset) ==
    [start_line |-> CountNewlines(SubSeq(text, 1, start_offset)) + 1,
     end_line |-> CountNewlines(SubSeq(text, 1, end_offset)) + 1]

\* re.search(r'^kw\s+([a-zA-Z0-9_!?\']+)', text).group(1), or Unknown when
\* the pattern does not match; i is the position after the keyword(s).
NameAfter(text, i) ==
    LET p == RunEnd(text, i, Whitespace)
        e == RunEnd(text, p, IdentifierClass)
    IN  IF i <= Len(text) /\ text[i] \in Whitespace /\ e > p
        THEN SubSeq(text, p, e - 1)
        ELSE Unknown

\* The position after ^kw1\s+kw2 in text, or 0.
SecondKeywordEnd(text, kw1, kw2) ==
    LET w == Len(kw1) + 1
        q == RunEnd(text, w, Whitespace)
    IN  IF /\ startswith(text, kw1)
           /\ w <= Len(text)
           /\ text[w] \in Whitespace
           /\ LiteralAt(text, q, kw2)
        THEN q + Len(kw2)
        ELSE 0

\* Faulty variant of the classifier: the `struct` test placed before the
\* `mutable struct` test and written as a search for the keyword anywhere.
parse_definition_struct_anywhere(text) ==
    IF startswith(text, KwFunction)
    THEN [type |-> KwFunction, name |-> NameAfter(text, Len(KwFunction) + 1)]
    ELSE IF startswith(text, AbstractTypePrefix)
    THEN [type |-> AbstractTypePrefix,
          name |-> NameAfter(text, SecondKeywordEnd(text, KwAbstract, KwType))]
    ELSE IF \E i \in 1..Len(text) : LiteralAt(text, i, KwStruct)
    THEN [type |-> KwStruct, name |-> NameAfter(text, Len(KwStruct) + 1)]
    ELSE [type |-> Unknown, name |-> Unknown]

parse_definition_type_and_name(text) ==
    IF startswith(text, KwFunction)
    THEN [type |-> KwFunction, name |-> NameAfter(text, Len(KwFunction) + 1)]
    ELSE IF startswith(text, AbstractTypePrefix)
    THEN [type |-> AbstractTypePrefix,
          name |-> NameAfter(text, SecondKeywordEnd(text, KwAbstract, KwType))]
    ELSE IF startswith(text, MutableStructPrefix)
    THEN [type |-> KwStruct,
          name |-> NameAfter(text, SecondKeywordEnd(text, KwMutable, KwStruct))]
    ELSE IF startswith(text, KwStruct)
    THEN [type |-> KwStruct, name |-> NameAfter(text, Len(KwStruct) + 1)]
    ELSE [type |-> Unknown, name |-> Unknown]

\* The body of the loop of chunk_julia_file_by_docstring: the chunk built
\* from one yielded tuple.
ChunkOf(file_path, text, tuple) ==
    LET lines == compute_line_numbers(text, tuple.start_offset, tuple.end_offset)
        def == parse_definition_type_and_name(tuple.definition_code)
    IN  [type |-> def.type,
         name |-> def.name,
         docstring |-> tuple.docstring_text,
         definition_code |-> tuple.definition_code,
         metadata |-> [filename |-> file_path,
                       start_line |-> lines.start_line,
                       end_line |-> lines.end_line]]

\* text is the content read from file_path.
chunk_julia_file_by_docstring(file_path, text) ==
    LET yielded == find_docstring_definitions(text)
    IN  [k \in 1..Len(yielded) |-> ChunkOf(file_path, text, yielded[k])]

-----------------------------------------------------------------------------
(* The file under the chunker: a .jl file written fragment by fragment,    *)
(* then read and chunked.                                                  *)

MaxFragments == 4

DocBlock == TripleQuote \o <<"d">> \o TripleQuote
FunctionF == KwFunction \o <<SPACE, "f", "(", ")", NEWLINE>> \o KwEnd
FunctionEndpoint == KwFunction \o <<SPACE>> \o KwEnd \o <<"p", "t", "(", ")", NEWLINE>> \o KwEnd
StructP == KwStruct \o <<SPACE, "P", NEWLINE, "x", NEWLINE>> \o KwEnd
MutableStructP == KwMutable \o <<SPACE>> \o KwStruct \o <<SPACE, "P", SPACE>> \o KwEnd
AbstractTypeS == KwAbstract \o <<SPACE>> \o KwType \o <<SPACE, "S", SPACE>> \o KwEnd
AbstractWideS == KwAbstract \o <<SPACE, SPACE>> \o KwType \o <<SPACE, "S", SPACE>> \o KwEnd
DocumentedFunction == DocBlock \o <<NEWLINE>> \o FunctionF
OtherCode == <<"x", NEWLINE>>

\* The pieces a file is written from.
Fragments ==
    {TripleQuote, <<NEWLINE>>, <<SPACE>>, OtherCode,
     DocBlock, DocumentedFunction,
     FunctionF, FunctionEndpoint, StructP, MutableStructP, AbstractTypeS,
     AbstractWideS}

FilePath == <<<<"a", ".", "j", "l">>>>

NotParsed == [type |-> <<>>, name |-> <<>>]

InitFile ==
    /\ code = <<>>
    /\ written = 0
    /\ spans = <<>>
    /\ chunks = <<>>
    /\ definition_code = <<>>
    /\ parsed = NotParsed
    /\ tree = <<>>
    /\ walk = [pc |-> "editing"]
    /\ documents = <<>>

\* The author appends a fragment to the file.
EditFile(fragment) ==
    /\ walk.pc = "editing"
    /\ written < MaxFragments
    /\ code' = code \o fragment
    /\ written' = written + 1
    /\ UNCHANGED <<spans, chunks, definition_code, parsed, tree, walk, documents>>

\* chunk_julia_file_by_docstring(FilePath) on the file as written.
ChunkFile ==
    /\ walk.pc = "editing"
    /\ spans' = find_docstring_definitions(code)
    /\ chunks' = chunk_julia_file_by_docstring(FilePath, code)
    /\ walk' = [pc |-> "chunked"]
    /\ UNCHANGED <<code, written, definition_code, parsed, tree, documents>>

NextFile ==
    \/ \E fragment \in Fragments : EditFile(fragment)
    \/ ChunkFile

Spec == InitFile /\ [][NextFile]_vars

-----------------------------------------------------------------------------
(* Properties of the file chunker                                          *)

Chunked == walk.pc = "chunked"

\* spans[k] is the match chunk k is built from.

Contains(text, sub) == \E i \in 1..(Len(text) + 1) : LiteralAt(text, i, sub)

Occurrences(text, sub) == {i \in 1..Len(text) : LiteralAt(text, i, sub)}

\* Position in the file of the first character of chunk k's definition
\* (group 2 starts with a keyword and ends with "end": strip keeps it whole).
DefinitionStart(k) == spans[k].end_offset - Len(chunks[k].definition_code) + 1

\* The characters at positions i..i+2 are an `end` token of the file: not
\* part of a longer identifier.
EndTokenAt(text, i) ==
    /\ LiteralAt(text, i, KwEnd)
    /\ i > 1 => text[i - 1] \notin IdentifierClass
    /\ i + 3 <= Len(text) => text[i + 3] \notin IdentifierClass

\* The identifier declared by the definition whose keyword run ends before
\* position i of the file: the whole identifier that follows the whitespace.
DeclaredIdentifier(text, i) ==
    SubSeq(text, RunEnd(text, i, Whitespace),
           RunEnd(text, RunEnd(text, i, Whitespace), IdentifierClass) - 1)

\* C2: the documentation capture stops at the first closing triple-quote,
\* so no chunk's documentation contains the triple-quote delimiter.
C2_DocumentationHasNoDelimiter ==
    Chunked => \A k \in 1..Len(chunks) : ~Contains(chunks[k].docstring, TripleQuote)

\* C3: every definition text stops at the first `end` token after its
\* opening keyword: the match ends with a whole `end` token of the file, no
\* earlier `end` token lies after the keyword, and the chunk of a function
\* is named by the full declared identifier.
C3_DefinitionStopsAtEndToken ==
    Chunked =>
        \A k \in 1..Len(chunks) :
            /\ EndTokenAt(code, spans[k].end_offset - 2)
            /\ \A i \in (DefinitionStart(k) + 1)..(spans[k].end_offset - 3) :
                   ~EndTokenAt(code, i)
            /\ chunks[k].type = KwFunction =>
                   chunks[k].name =
                       DeclaredIdentifier(code, DefinitionStart(k) + Len(KwFunction))

\* C7: a chunk exists only for a definition that directly follows the
\* closing delimiter of its documentation: between that delimiter and the
\* first character of the definition there is whitespace only.
C7_DefinitionFollowsDocumentation ==
    Chunked =>
        \A k \in 1..Len(chunks) :
            \E q \in (spans[k].start_offset + 4)..(DefinitionStart(k) - 4) :
                /\ LiteralAt(code, q, TripleQuote)
                /\ \A j \in (q + 3)..(DefinitionStart(k) - 1) : code[j] \in Whitespace

\* A file with a documented definition that is chunked and a further
\* function definition that is not (it yields no chunk).
C7_Witness ==
    /\ Chunked
    /\ Len(chunks) = 1
    /\ Cardinality(Occurrences(code, KwFunction \o <<SPACE>>)) = 2

\* Chunk k is built from the k-th match, the matches come left to right
\* and do not overlap, and a file of two documented functions yields
\* exactly two chunks.
OrderedMatches ==
    /\ Len(chunks) = Len(spans)
    /\ \A k \in 1..Len(chunks) :
           /\ chunks[k].docstring = spans[k].docstring_text
           /\ chunks[k].definition_code = spans[k].definition_code
           /\ chunks[k].definition_code =
                  SubSeq(code, DefinitionStart(k), spans[k].end_offset)
           /\ spans[k].start_offset < spans[k].end_offset
    /\ \A k \in 1..(Len(chunks) - 1) :
           spans[k].end_offset <= spans[k + 1].start_offset
    /\ \A sep \in {<<NEWLINE>>, <<SPACE>>, <<NEWLINE, NEWLINE>>} :
           code = DocumentedFunction \o sep \o DocumentedFunction
               => Len(chunks) = 2

\* C8 as stated: chunks come in the order of their matches, the matches do
\* not overlap, and the line ranges of consecutive chunks are disjoint
\* (end_line of the earlier is less than start_line of the later).
C8_LineRangesDisjoint ==
    Chunked =>
        /\ OrderedMatches
        /\ \A k \in 1..(Len(chunks) - 1) :
               chunks[k].metadata.end_line < chunks[k + 1].metadata.start_line

\* C8, amended: chunks come in the left-to-right order of their matches,
\* the matches do not overlap, and the line range of a chunk starts no
\* earlier than the line on which the previous chunk ends (a match may
\* start on the line where the previous one ends); a file of two documented
\* functions yields exactly two chunks.
C8_OrderedMatchesLinesMayTouch ==
    Chunked =>
        /\ OrderedMatches
        /\ \A k \in 1..(Len(chunks) - 1) :
               chunks[k].metadata.end_line <= chunks[k + 1].metadata.start_line

\* Two chunks, the second starting on the line where the first ends.
C8_Witness ==
    /\ Chunked
    /\ Len(chunks) = 2
    /\ chunks[1].metadata.end_line = chunks[2].metadata.start_line

\* C9: every chunk has 1 <= start_line <= end_line and a non-empty
\* definition text.
C9_LineRangeAndDefinition ==
    Chunked =>
        \A k \in 1..Len(chunks) :
            /\ 1 <= chunks[k].metadata.start_line
            /\ chunks[k].metadata.start_line <= chunks[k].metadata.end_line
            /\ chunks[k].definition_code # <<>>

\* A chunk that starts after the first line and spans several lines.
C9_Witness ==
    /\ Chunked
    /\ \E k \in 1..Len(chunks) :
           /\ 1 < chunks[k].metadata.start_line
           /\ chunks[k].metadata.start_line < chunks[k].metadata.end_line

\* Position of the n-th newline of text (n >= 1, at most CountNewlines).
NewlineAt(text, n) ==
    LET newlines == {j \in 1..Len(text) : text[j] = NEWLINE}
    IN  CHOOSE j \in newlines : Cardinality({k \in newlines : k <= j}) = n

\* "\n".join(text.split("\n")[a - 1 : b]) for 1-based inclusive lines a..b.
LineJoin(text, a, b) ==
    LET last == CountNewlines(text) + 1
        from == IF a = 1 THEN 1 ELSE NewlineAt(text, a - 1) + 1
        to == IF b >= last THEN Len(text) ELSE NewlineAt(text, b) - 1
    IN  IF a < 1 \/ a > b \/ a > last THEN <<>> ELSE SubSeq(text, from, to)

\* C10: start_line and end_line are one plus the number of newlines before
\* the start and the end offset of the whole match, and the lines
\* start_line..end_line of the file, joined, contain the chunk's definition
\* text, its documentation and the whole match.
C10_LocationRoundTrip ==
    Chunked =>
        \A k \in 1..Len(chunks) :
            LET joined == LineJoin(code, chunks[k].metadata.start_line,
                                   chunks[k].metadata.end_line)
            IN  /\ chunks[k].metadata.start_line =
                       CountNewlines(SubSeq(code, 1, spans[k].start_offset)) + 1
                /\ chunks[k].metadata.end_line =
                       CountNewlines(SubSeq(code, 1, spans[k].end_offset)) + 1
                /\ Contains(joined, chunks[k].definition_code)
                /\ Contains(joined, chunks[k].docstring)
                /\ Contains(joined, SubSeq(code, spans[k].start_offset + 1,
                                           spans[k].end_offset))

\* A chunk on lines strictly inside the file: lines before it and after it.
C10_Witness ==
    /\ Chunked
    /\ \E k \in 1..Len(chunks) :
           /\ 1 < chunks[k].metadata.start_line
           /\ chunks[k].metadata.start_line < chunks[k].metadata.end_line
           /\ chunks[k].metadata.end_line < CountNewlines(code) + 1

\* The type of the alternative of the pattern that matches at position p:
\* function, [mutable] struct, abstract type, tried in that order.
MatchedKind(text, p) ==
    IF AltFunction(text, p) # 0 THEN KwFunction
    ELSE IF AltStruct(text, p) # 0 THEN KwStruct
    ELSE AbstractTypePrefix

\* C12: the matcher and the classifier agree: no chunk of a file has the
\* type unknown, and each chunk's type is that of the alternative of the
\* pattern that matched its definition, whatever whitespace the pattern
\* accepted between `abstract` and `type` or `mutable` and `struct`.
C12_ClassifierAgreesWithMatcher ==
    Chunked =>
        \A k \in 1..Len(chunks) :
            /\ chunks[k].type # Unknown
            /\ chunks[k].type = MatchedKind(code, DefinitionStart(k))

-----------------------------------------------------------------------------
(* The Definition Classifier on its own: parse_definition_type_and_name    *)
(* applied to trimmed texts put together from keywords, whitespace,        *)
(* identifiers and punctuation.                                            *)

MaxTokens == 4

IdentifierG == <<"g", "!">>
IdentifierQ == <<"q", "_", "1", "?", "'">>

Tokens ==
    {KwFunction, AbstractTypePrefix, MutableStructPrefix, KwStruct,
     KwAbstract, KwMutable, KwType, <<SPACE>>, <<NEWLINE>>,
     IdentifierG, IdentifierQ, <<"(">>, <<":">>}

InitClassifier ==
    /\ code = <<>>
    /\ written = 0
    /\ spans = <<>>
    /\ chunks = <<>>
    /\ definition_code = <<>>
    /\ parsed = NotParsed
    /\ tree = <<>>
    /\ walk = [pc |-> "composing"]
    /\ documents = <<>>

\* The next token of the definition text.
ExtendDefinition(token) ==
    /\ walk.pc = "composing"
    /\ written < MaxTokens
    /\ definition_code' = definition_code \o token
    /\ written' = written + 1
    /\ UNCHANGED <<code, spans, chunks, parsed, tree, walk, documents>>

\* parse_definition_type_and_name(definition_code); its callers pass a
\* stripped text.
ParseDefinition ==
    /\ walk.pc = "composing"
    /\ definition_code = strip(definition_code)
    /\ parsed' = parse_definition_type_and_name(definition_code)
    /\ walk' = [pc |-> "parsed"]
    /\ UNCHANGED <<code, written, spans, chunks, definition_code, tree, documents>>

NextClassifier ==
    \/ \E token \in Tokens : ExtendDefinition(token)
    \/ ParseDefinition

SpecClassifier == InitClassifier /\ [][NextClassifier]_vars

\* The name rule of the classifier table: the longest run of identifier
\* characters that follows the keyword text of length n and the
\* whitespace after it; unknown when the keyword is not followed by
\* whitespace and then at least one identifier character.
TableName(text, n) ==
    LET rest == SubSeq(text, n + 1, Len(text))
        blank == {j \in 1..Len(rest) : rest[j] \in Whitespace /\
                      \A k \in 1..j : rest[k] \in Whitespace}
        after == SubSeq(rest, Cardinality(blank) + 1, Len(rest))
        run == {j \in 1..Len(after) : \A k \in 1..j : after[k] \in IdentifierClass}
    IN  IF blank = {} \/ run = {} THEN Unknown
        ELSE SubSeq(after, 1, Cardinality(run))

\* The classifier table in its stated priority order: abstract type,
\* mutable struct, struct, function, otherwise unknown.
TableEntry(text) ==
    IF startswith(text, AbstractTypePrefix)
    THEN [type |-> AbstractTypePrefix, name |-> TableName(text, Len(AbstractTypePrefix))]
    ELSE IF startswith(text, MutableStructPrefix)
    THEN [type |-> KwStruct, name |-> TableName(text, Len(MutableStructPrefix))]
    ELSE IF startswith(text, KwStruct)
    THEN [type |-> KwStruct, name |-> TableName(text, Len(KwStruct))]
    ELSE IF startswith(text, KwFunction)
    THEN [type |-> KwFunction, name |-> TableName(text, Len(KwFunction))]
    ELSE [type |-> Unknown, name |-> Unknown]

\* C1: for every trimmed definition text the classifier returns the kind
\* and name of the rule table applied in its priority order, although the
\* code tests the prefixes in another order.
C1_ClassifierFollowsTable ==
    walk.pc = "parsed" => parsed = TableEntry(definition_code)

\* A mutable struct whose name ends in `!` was classified, with text after
\* the name.
C1_Witness ==
    /\ walk.pc = "parsed"
    /\ startswith(definition_code, MutableStructPrefix)
    /\ parsed = [type |-> KwStruct, name |-> IdentifierG]
    /\ Len(definition_code) > Len(MutableStructPrefix) + 3

-----------------------------------------------------------------------------
(* The Tree Walker, chunk_by_docstring, over a directory tree, and the two *)
(* document projectors applied to what it returns.                         *)

MaxFiles == 2

\* How many times chunk_by_docstring is called on the same, unchanged tree.
MaxRuns == 2

JlSuffix == <<".", "j", "l">>
NameA == <<"a", ".", "j", "l">>
NameB == <<"b", ".", "j", "l">>
NameNotes == <<"n", ".", "t", "x", "t">>
DirPath == <<"s", "r", "c">>
NameSub == <<"s", "u", "b">>
NameDeep == <<"d", "e", "e", "p">>
NameLib == <<"l", "i", "b">>

\* str.endswith
endswith(text, suffix) ==
    /\ Len(text) >= Len(suffix)
    /\ SubSeq(text, Len(text) - Len(suffix) + 1, Len(text)) = suffix

\* What a file holds: bytes that decode as UTF-8 to `text`, or bytes that
\* do not decode.
TwoDefinitions == DocumentedFunction \o <<NEWLINE>> \o DocBlock \o <<NEWLINE>> \o StructP
FileContents ==
    {[decodable |-> TRUE, text |-> TwoDefinitions],
     [decodable |-> TRUE, text |-> OtherCode \o FunctionF],
     [decodable |-> FALSE, text |-> <<>>]}

FileEntries == [name : {NameA, NameB, NameNotes}, content : FileContents]

\* The listings of one directory with n files: their names are distinct.
FileListings(n) ==
    {fs \in [1..n -> FileEntries] :
        \A i, j \in 1..n : fs[i].name = fs[j].name => i = j}

Directory(name, files, dirs) == [name |-> name, files |-> files, dirs |-> dirs]

\* The ways to spread at most MaxFiles files over m directories.
FileCounts(m) ==
    {ns \in [1..m -> 0..MaxFiles] :
        (IF m >= 1 THEN ns[1] ELSE 0) + (IF m >= 2 THEN ns[2] ELSE 0)
            + (IF m >= 3 THEN ns[3] ELSE 0) <= MaxFiles}

\* The directory trees: a root alone, with one subdirectory, with a
\* subdirectory nested in a subdirectory, or with two subdirectories; at
\* most MaxFiles files in all.
DirectoryTrees ==
    UNION {{Directory(DirPath, f, <<>>) : f \in FileListings(ns[1])} :
              ns \in FileCounts(1)}
    \cup UNION {{Directory(DirPath, f, <<Directory(NameSub, g, <<>>)>>) :
                    f \in FileListings(ns[1]), g \in FileListings(ns[2])} :
                   ns \in FileCounts(2)}
    \cup UNION {{Directory(DirPath, f,
                    <<Directory(NameSub, g, <<Directory(NameDeep, h, <<>>)>>)>>) :
                    f \in FileListings(ns[1]), g \in FileListings(ns[2]),
                    h \in FileListings(ns[3])} :
                   ns \in FileCounts(3)}
    \cup UNION {{Directory(DirPath, f,
                    <<Directory(NameSub, g, <<>>), Directory(NameLib, h, <<>>)>>) :
                    f \in FileListings(ns[1]), g \in FileListings(ns[2]),
                    h \in FileListings(ns[3])} :
                   ns \in FileCounts(3)}

\* What dir_path names: nothing, a regular file, or a directory.
FileSystems ==
    {[kind |-> "missing", top |-> Directory(DirPath, <<>>, <<>>)],
     [kind |-> "file", top |-> Directory(DirPath, <<>>, <<>>)]}
    \cup {[kind |-> "directory", top |-> d] : d \in DirectoryTrees}

\* os.walk(path, topdown=False): each subdirectory before the directory
\* itself.
RECURSIVE os_walk_bottom_up(_, _)
os_walk_bottom_up(path, dir) ==
    (IF Len(dir.dirs) >= 1
     THEN os_walk_bottom_up(path \o <<dir.dirs[1].name>>, dir.dirs[1]) ELSE <<>>)
        \o (IF Len(dir.dirs) >= 2
            THEN os_walk_bottom_up(path \o <<dir.dirs[2].name>>, dir.dirs[2]) ELSE <<>>)
        \o <<[root |-> path, files |-> dir.files]>>

\* os.walk(path), top-down: the directory itself, then each subdirectory
\* in listing order.  Each element stands for one (root, dirs, files).
RECURSIVE os_walk(_, _)
os_walk(path, dir) ==
    <<[root |-> path, files |-> dir.files]>>
        \o (IF Len(dir.dirs) >= 1
            THEN os_walk(path \o <<dir.dirs[1].name>>, dir.dirs[1]) ELSE <<>>)
        \o (IF Len(dir.dirs) >= 2
            THEN os_walk(path \o <<dir.dirs[2].name>>, dir.dirs[2]) ELSE <<>>)

\* The two nested loops of chunk_by_docstring, flattened: every
\* (root, file) pair in the order the loops reach it.
RECURSIVE VisitOrder(_)
VisitOrder(walked) ==
    IF walked = <<>> THEN <<>>
    ELSE [k \in 1..Len(Head(walked).files) |->
             [root |-> Head(walked).root, file |-> Head(walked).files[k]]]
         \o VisitOrder(Tail(walked))

\* os.walk ignores the error of listing a top that is missing or is no
\* directory (onerror is None): it yields nothing.
WalkOf(fs) ==
    IF fs.kind = "directory" THEN VisitOrder(os_walk(<<DirPath>>, fs.top)) ELSE <<>>

InitWalker ==
    /\ code = <<>>
    /\ written = 0
    /\ spans = <<>>
    /\ chunks = <<>>
    /\ definition_code = <<>>
    /\ parsed = NotParsed
    /\ tree \in FileSystems
    /\ walk = [pc |-> "idle", todo |-> <<>>, run |-> 1, earlier |-> <<>>]
    /\ documents = <<>>

\* chunk_by_docstring(dir_path) is called: all_chunks = [] and the walk
\* starts.
CallChunkByDocstring ==
    /\ walk.pc = "idle"
    /\ chunks' = <<>>
    /\ walk' = [walk EXCEPT !.pc = "walking", !.todo = WalkOf(tree)]
    /\ UNCHANGED <<code, written, spans, definition_code, parsed, tree, documents>>

\* The caller, holding what one call returned, calls chunk_by_docstring
\* again on the same tree: all_chunks is a fresh list in every call.
CallChunkByDocstringAgain ==
    /\ walk.pc = "returned"
    /\ walk.run < MaxRuns
    /\ chunks' = <<>>
    /\ walk' = [pc |-> "walking", todo |-> WalkOf(tree),
                run |-> walk.run + 1, earlier |-> chunks]
    /\ UNCHANGED <<code, written, spans, definition_code, parsed, tree, documents>>

\* The next file does not end in .jl: nothing is done with it.
SkipOtherFile ==
    /\ walk.pc = "walking"
    /\ walk.todo # <<>>
    /\ ~endswith(Head(walk.todo).file.name, JlSuffix)
    /\ walk' = [walk EXCEPT !.todo = Tail(walk.todo)]
    /\ UNCHANGED <<code, written, spans, chunks, definition_code, parsed, tree, documents>>

\* The next .jl file is read and chunked, its chunks appended.
ChunkNextFile ==
    /\ walk.pc = "walking"
    /\ walk.todo # <<>>
    /\ endswith(Head(walk.todo).file.name, JlSuffix)
    /\ Head(walk.todo).file.content.decodable
    /\ chunks' = chunks \o chunk_julia_file_by_docstring(
                     Head(walk.todo).root \o <<Head(walk.todo).file.name>>,
                     Head(walk.todo).file.content.text)
    /\ walk' = [walk EXCEPT !.todo = Tail(walk.todo)]
    /\ UNCHANGED <<code, written, spans, definition_code, parsed, tree, documents>>

\* f.read() of the next .jl file raises UnicodeDecodeError; nothing in
\* chunk_by_docstring catches it, so the call ends with the error.
ReadFails ==
    /\ walk.pc = "walking"
    /\ walk.todo # <<>>
    /\ endswith(Head(walk.todo).file.name, JlSuffix)
    /\ ~Head(walk.todo).file.content.decodable
    /\ walk' = [walk EXCEPT !.pc = "raised"]
    /\ UNCHANGED <<code, written, spans, chunks, definition_code, parsed, tree, documents>>

\* return all_chunks
ReturnChunks ==
    /\ walk.pc = "walking"
    /\ walk.todo = <<>>
    /\ walk' = [walk EXCEPT !.pc = "returned"]
    /\ UNCHANGED <<code, written, spans, chunks, definition_code, parsed, tree, documents>>

Indent == <<SPACE, SPACE, SPACE, SPACE, SPACE, SPACE, SPACE, SPACE, SPACE, SPACE, SPACE, SPACE>>
LabelType == <<"T", "y", "p", "e", ":", " ">>
LabelName == <<"N", "a", "m", "e", ":", " ">>
LabelDocstring == <<"D", "o", "c", "s", "t", "r", "i", "n", "g", ":">>
LabelDefinition == <<"D", "e", "f", "i", "n", "i", "t", "i", "o", "n", ":">>

\* initialize_agent.py: the document of one chunk.
TransformedDocument(chunk) ==
    [page_content |-> chunk.docstring \o <<NEWLINE, NEWLINE>> \o chunk.definition_code,
     metadata |-> chunk.metadata]

transform_chunks_to_documents(chunk_dicts) ==
    [k \in 1..Len(chunk_dicts) |-> TransformedDocument(chunk_dicts[k])]

\* code_specialist_agent.py: the document of one chunk (the f-string of
\* load_julia_code, with its indentation).
LoadedDocument(chunk) ==
    [page_content |->
         <<NEWLINE>>
         \o Indent \o LabelType \o chunk.type \o <<NEWLINE>>
         \o Indent \o LabelName \o chunk.name \o <<NEWLINE>>
         \o Indent \o <<NEWLINE>>
         \o Indent \o LabelDocstring \o <<NEWLINE>>
         \o Indent \o chunk.docstring \o <<NEWLINE>>
         \o Indent \o <<NEWLINE>>
         \o Indent \o LabelDefinition \o <<NEWLINE>>
         \o Indent \o chunk.definition_code \o <<NEWLINE>>
         \o Indent,
     metadata |-> [filename |-> chunk.metadata.filename,
                   start_line |-> chunk.metadata.start_line,
                   end_line |-> chunk.metadata.end_line,
                   name |-> chunk.name]]

load_julia_code(chunk_dicts) ==
    [k \in 1..Len(chunk_dicts) |-> LoadedDocument(chunk_dicts[k])]

\* initialize_agent.py projects the chunks the walk returned.
TransformChunksToDocuments ==
    /\ walk.pc = "returned"
    /\ documents' = transform_chunks_to_documents(chunks)
    /\ walk' = [walk EXCEPT !.pc = "transformed"]
    /\ UNCHANGED <<code, written, spans, chunks, definition_code, parsed, tree>>

\* CodingExpertAgent.load_julia_code: the same walk, then its projection.
LoadJuliaCode ==
    /\ walk.pc = "returned"
    /\ documents' = load_julia_code(chunks)
    /\ walk' = [walk EXCEPT !.pc = "loaded"]
    /\ UNCHANGED <<code, written, spans, chunks, definition_code, parsed, tree>>

NextWalker ==
    \/ CallChunkByDocstring
    \/ CallChunkByDocstringAgain
    \/ SkipOtherFile
    \/ ChunkNextFile
    \/ ReadFails
    \/ ReturnChunks
    \/ TransformChunksToDocuments
    \/ LoadJuliaCode

SpecWalker == InitWalker /\ [][NextWalker]_vars

-----------------------------------------------------------------------------
(* Properties of the walker and of the projectors                          *)

\* The call has handed a chunk sequence back to its caller.
Returned == walk.pc \in {"returned", "transformed", "loaded"}

\* The call is over: it returned, or it ended with an error.
CallOver == Returned \/ walk.pc = "raised"

\* What the caller holds once the call is over: the returned sequence, and
\* nothing when the call raised.
Delivered == IF Returned THEN chunks ELSE <<>>

\* C4: for a root that does not exist or is no directory the call fails
\* (NotFoundError); it never returns an ordinary chunk sequence.
C4_MissingRootNeverReturns ==
    tree.kind # "directory" => ~Returned

\* C5: a file that does not decode is skipped or reported, and the chunks
\* of every other .jl file of the tree still reach the caller.
C5_OtherFilesStillDelivered ==
    CallOver =>
        \A k \in 1..Len(WalkOf(tree)) :
            LET visit == WalkOf(tree)[k]
            IN  (endswith(visit.file.name, JlSuffix) /\ visit.file.content.decodable)
                => \A c \in 1..Len(chunk_julia_file_by_docstring(
                                       visit.root \o <<visit.file.name>>,
                                       visit.file.content.text)) :
                       \E d \in 1..Len(Delivered) :
                           Delivered[d] =
                               chunk_julia_file_by_docstring(
                                   visit.root \o <<visit.file.name>>,
                                   visit.file.content.text)[c]

\* C6: each document's text is the documentation, a blank line, then the
\* definition text and nothing else, and its metadata carries the file
\* path, start_line, end_line and name; for both projectors.
C6_ProjectorContract ==
    walk.pc \in {"transformed", "loaded"} =>
        \A k \in 1..Len(documents) :
            /\ documents[k].page_content =
                   chunks[k].docstring \o <<NEWLINE, NEWLINE>> \o chunks[k].definition_code
            /\ {"start_line", "end_line", "name"} \subseteq DOMAIN documents[k].metadata
            /\ \/ "file_path" \in DOMAIN documents[k].metadata
               \/ "filename" \in DOMAIN documents[k].metadata

-----------------------------------------------------------------------------
(* The returned sequence against the tree it was built from                *)

\* The chunks of the files of one directory listing, file after file: the
\* chunks a .jl file gives, carrying that file's path, and none for a file
\* of another extension.
RECURSIVE ListingChunks(_, _)
ListingChunks(path, files) ==
    IF files = <<>> THEN <<>>
    ELSE (IF endswith(Head(files).name, JlSuffix)
          THEN chunk_julia_file_by_docstring(path \o <<Head(files).name>>,
                                             Head(files).content.text)
          ELSE <<>>)
         \o ListingChunks(path, Tail(files))

\* The chunks of a directory tree: those of the directory's own files,
\* then those of each subdirectory's tree, in listing order.
RECURSIVE TreeChunks(_, _)
TreeChunks(path, dir) ==
    ListingChunks(path, dir.files)
        \o (IF Len(dir.dirs) >= 1
            THEN TreeChunks(path \o <<dir.dirs[1].name>>, dir.dirs[1]) ELSE <<>>)
        \o (IF Len(dir.dirs) >= 2
            THEN TreeChunks(path \o <<dir.dirs[2].name>>, dir.dirs[2]) ELSE <<>>)

\* The files of a directory tree, whatever the order.
RECURSIVE TreeFiles(_)
TreeFiles(dir) ==
    {dir.files[k] : k \in 1..Len(dir.files)}
        \cup (IF Len(dir.dirs) >= 1 THEN TreeFiles(dir.dirs[1]) ELSE {})
        \cup (IF Len(dir.dirs) >= 2 THEN TreeFiles(dir.dirs[2]) ELSE {})

EveryJuliaFileDecodes ==
    \A file \in TreeFiles(tree.top) :
        endswith(file.name, JlSuffix) => file.content.decodable

\* C11: on a directory tree, what chunk_by_docstring returns is the
\* concatenation, directory after directory (a directory's own files
\* first, then its subdirectories) and file after file, of the chunk
\* sequences of the files whose name ends in .jl, each chunk carrying the
\* path of its own file; every chunk comes from a .jl file; the call
\* returns whenever every .jl file of the tree can be read; and a second
\* call on the unchanged tree returns what the first returned.
C11_WalkConcatenatesJuliaFiles ==
    tree.kind = "directory" =>
        /\ Returned =>
               /\ chunks = TreeChunks(<<DirPath>>, tree.top)
               /\ \A k \in 1..Len(chunks) :
                      endswith(chunks[k].metadata.filename[
                                   Len(chunks[k].metadata.filename)], JlSuffix)
        /\ (CallOver /\ EveryJuliaFileDecodes) => Returned
        /\ (Returned /\ walk.run > 1) => chunks = walk.earlier

\* A second call has returned on a tree with a subdirectory nested in a
\* subdirectory, where a file of another extension holds documented
\* definitions and a .jl file two levels down gives two chunks.
C11_Witness ==
    /\ walk.pc = "returned"
    /\ walk.run > 1
    /\ tree.kind = "directory"
    /\ Len(tree.top.dirs) = 1
    /\ Len(tree.top.dirs[1].dirs) = 1
    /\ \E k \in 1..Len(tree.top.files) :
           /\ ~endswith(tree.top.files[k].name, JlSuffix)
           /\ tree.top.files[k].content.decodable
           /\ chunk_julia_file_by_docstring(<<DirPath>>, tree.top.files[k].content.text) # <<>>
    /\ Len(chunks) = 2
    /\ chunks[1].metadata.filename = <<DirPath, NameSub, NameDeep, NameA>>
    /\ chunks[2].metadata.filename = chunks[1].metadata.filename
    /\ chunks[1].metadata.start_line < chunks[2].metadata.start_line

====
